---- MODULE Spec2Model ----
(***************************************************************************)
(* State-machine model of GoogleMapsEngine (google_maps/engine.py) and of  *)
(* the calls a client such as run.py makes on it.                           *)
(*                                                                         *)
(* Strings that the code parses (URLs, coordinate groups) are sequences of *)
(* one-character strings, so that the substring tests, the two regular     *)
(* expressions, float() and round(.., 1) are computed as the code computes *)
(* them.  A URL is held in the state by a short name; Text(name) is its    *)
(* characters.                                                             *)
(***************************************************************************)
EXTENDS Integers, Sequences, FiniteSets, TLC

\* ------------------------------------------------------------------ bounds
\* longest discovered-link list the scrape step may return
MaxLinks == 2
\* number of run() calls a behaviour may make
MaxRuns == 2
\* extra time, beyond the pause, one scroll cycle may take
MaxOverhead == 1

\* ------------------------------------------------------- program constants
SLEEP_PER_SCROLL_S == 2
SCROLL_TIME_DURATION_S == 200
FIELD_NAMES ==
    << <<"T","i","t","l","e">>,
       <<"A","d","d","r","e","s","s">>,
       <<"P","h","o","n","e","N","u","m","b","e","r">>,
       <<"W","e","b","s","i","t","e","U","R","L">>,
       <<"G","o","o","g","l","e","M","a","p","s","U","R","L">>,
       <<"P","l","a","c","e","L","a","t">>,
       <<"P","l","a","c","e","L","a","n","g">> >>
FILENAME == "google_maps_leads.csv"
\* the placeholder 'No Info'
NoInfo == <<"N","o"," ","I","n","f","o">>

\* ---------------------------------------------------------------- URL texts
\* engine.url for query "gym", coords (51.1801, 71.446), zoom 12
UrlAstana == <<"g","y","m","/","@","5","1",".","1","8","0","1",",","7","1",".","4","4","6",",","1","2","z","/","d","a","t","a","=","!","3","m","1","!","4","b","1">>
\* engine.url for a query that itself contains "!3d" and "!4d"
UrlBadQuery == <<"a","!","3","d","!","4","d","/","@","5","1",".","1","8","0","1",",","7","1",".","4","4","6",",","1","2","z","/","d","a","t","a","=","!","3","m","1","!","4","b","1">>
\* place/A/data=!3d51.18!4d71.45
LinkA == <<"p","l","a","c","e","/","A","/","d","a","t","a","=","!","3","d","5","1",".","1","8","!","4","d","7","1",".","4","5">>
\* place/B/data=!3d40.71!4d-74.00
LinkB == <<"p","l","a","c","e","/","B","/","d","a","t","a","=","!","3","d","4","0",".","7","1","!","4","d","-","7","4",".","0","0">>
\* place/C/data=!3d51.18!4d71.44
LinkC == <<"p","l","a","c","e","/","C","/","d","a","t","a","=","!","3","d","5","1",".","1","8","!","4","d","7","1",".","4","4">>
\* place/G/@51.2,71.4,17z
LinkG == <<"p","l","a","c","e","/","G","/","@","5","1",".","2",",","7","1",".","4",",","1","7","z">>
\* place/U
LinkU == <<"p","l","a","c","e","/","U">>
\* place/X/@51.2,71.4,17z/data=!4d1!3d
LinkX == <<"p","l","a","c","e","/","X","/","@","5","1",".","2",",","7","1",".","4",",","1","7","z","/","d","a","t","a","=","!","4","d","1","!","3","d">>

EngineUrls == {"UrlAstana", "UrlBadQuery"}
LinkUrls == {"LinkA", "LinkB", "LinkC", "LinkG", "LinkU", "LinkX"}

Text(u) ==
    CASE u = "UrlAstana" -> UrlAstana
      [] u = "UrlBadQuery" -> UrlBadQuery
      [] u = "LinkA" -> LinkA
      [] u = "LinkB" -> LinkB
      [] u = "LinkC" -> LinkC
      [] u = "LinkG" -> LinkG
      [] u = "LinkU" -> LinkU
      [] u = "LinkX" -> LinkX

\* ------------------------------------------------- extract_lat_lang_from_url
Digits == {"0", "1", "2", "3", "4", "5", "6", "7", "8", "9"}

\* the character class [-.\d]
InClass(c) == c \in Digits \cup {"-", "."}

\* the literal pat occurs in s at position i
MatchAt(s, i, pat) ==
    /\ i + Len(pat) - 1 <= Len(s)
    /\ \A k \in 1..Len(pat) : s[i + k - 1] = pat[k]

\* Python's  pat in s
Contains(s, pat) == \E i \in 1..Len(s) : MatchAt(s, i, pat)

\* first position at or after i whose character is outside [-.\d]
RECURSIVE RunEnd(_, _)
RunEnd(s, i) == IF i <= Len(s) /\ InClass(s[i]) THEN RunEnd(s, i + 1) ELSE i

\* pre([-.\d]+)mid([-.\d]+)post anchored at position i: the two groups, or
\* <<>> when the pattern does not match there.  The characters that follow a
\* group are outside the class, so only the longest run can match.
GroupsAt(s, i, pre, mid, post) ==
    LET a == i + Len(pre)
        b == RunEnd(s, a)
        c == b + Len(mid)
        d == RunEnd(s, c)
    IN  IF /\ MatchAt(s, i, pre)
           /\ b > a
           /\ MatchAt(s, b, mid)
           /\ d > c
           /\ (post = <<>> \/ MatchAt(s, d, post))
        THEN <<SubSeq(s, a, b - 1), SubSeq(s, c, d - 1)>>
        ELSE <<>>

\* re.search: the groups at the leftmost position where the pattern matches
Search(s, pre, mid, post) ==
    LET hits == {i \in 1..Len(s) : GroupsAt(s, i, pre, mid, post) # <<>>}
    IN  IF hits = {} THEN <<>>
        ELSE GroupsAt(s, CHOOSE i \in hits : \A j \in hits : i <= j, pre, mid, post)

PlaceSearch(s) == Search(s, <<"!", "3", "d">>, <<"!", "4", "d">>, <<>>)
CenterSearch(s) == Search(s, <<"@">>, <<",">>, <<",">>)

\* the pair of strings the method returns; NoInfo is the placeholder
extract_lat_lang_from_url(s) ==
    LET match == IF Contains(s, <<"!", "3", "d">>) /\ Contains(s, <<"!", "4", "d">>)
                 THEN PlaceSearch(s)
                 ELSE CenterSearch(s)
    IN  IF match # <<>> THEN match ELSE <<NoInfo, NoInfo>>

\* ------------------------------------------------------- float() and round()
DigitVal(c) ==
    CASE c = "0" -> 0 [] c = "1" -> 1 [] c = "2" -> 2 [] c = "3" -> 3 [] c = "4" -> 4
      [] c = "5" -> 5 [] c = "6" -> 6 [] c = "7" -> 7 [] c = "8" -> 8 [] c = "9" -> 9

RECURSIVE NatOf(_)
NatOf(ds) == IF ds = <<>> THEN 0 ELSE 10 * NatOf(SubSeq(ds, 1, Len(ds) - 1)) + DigitVal(ds[Len(ds)])

\* float(x) for x a regex group or the placeholder: a record
\* [neg, int, frac] (sign, integer part, fraction digits), or ValueError
ValueError == [error |-> "ValueError"]

Float(x) ==
    LET neg == Len(x) > 0 /\ x[1] = "-"
        body == IF neg THEN SubSeq(x, 2, Len(x)) ELSE x
        dots == {i \in 1..Len(body) : body[i] = "."}
        dot == IF dots = {} THEN Len(body) + 1 ELSE CHOOSE i \in dots : TRUE
        ip == SubSeq(body, 1, dot - 1)
        fp == SubSeq(body, dot + 1, Len(body))
    IN  IF \/ Cardinality(dots) > 1
           \/ \E i \in 1..Len(body) : body[i] \notin Digits \cup {"."}
           \/ Len(ip) + Len(fp) = 0
        THEN ValueError
        ELSE [neg |-> neg, int |-> NatOf(ip), frac |-> fp]

\* Decimal literals int.t5 of the input sets whose nearest binary64 value lies
\* above the literal (71.45 is 71.4500000000000028...); the literals that end
\* in 25 or 75 are exact and the others of the input sets lie below.
BinaryAbove == {<<71, 4>>}

\* Round1 with the digits after the first dropped instead of rounded
Round1_truncate(f) ==
    LET t == IF Len(f.frac) >= 1 THEN DigitVal(f.frac[1]) ELSE 0
        mag == 10 * f.int + t
    IN  IF f.neg THEN 0 - mag ELSE mag

\* round(f, 1) in tenths, as an integer: round-half-even on the binary64
\* value of the literal
Round1(f) ==
    LET t == IF Len(f.frac) >= 1 THEN DigitVal(f.frac[1]) ELSE 0
        rest == IF Len(f.frac) >= 2 THEN SubSeq(f.frac, 2, Len(f.frac)) ELSE <<>>
        r1 == IF rest = <<>> THEN 0 ELSE DigitVal(rest[1])
        tail == \E i \in 2..Len(rest) : rest[i] # "0"
        lastTwo == 10 * t + 5
        exact == lastTwo \in {25, 75}
        up == \/ r1 > 5
              \/ r1 = 5 /\ tail
              \/ r1 = 5 /\ ~tail /\ exact /\ t % 2 = 1
              \/ r1 = 5 /\ ~tail /\ ~exact /\ <<f.int, t>> \in BinaryAbove
        mag == 10 * f.int + t + (IF up THEN 1 ELSE 0)
    IN  IF f.neg THEN 0 - mag ELSE mag

\* ------------------------------------------------------ _parse_data_with_soup
\* what soup.select_one finds on a detail page: <<>> for None, <<text>> for an
\* element with that text
HtmlFull == [title |-> << <<"G","y","m">> >>, address |-> << <<"S","t"," ","1">> >>,
             phone |-> << <<"5","5","5">> >>, website |-> << <<"g",".","k","z">> >>]
HtmlNoAddress == [HtmlFull EXCEPT !.address = <<>>]

\* page.content() after page.goto(u): the detail page behind each link
Content(u) == IF u \in {"LinkB", "LinkG"} THEN HtmlNoAddress ELSE HtmlFull

\* e.get_text() if e else 'No Info'
TextOr(e) == IF e # <<>> THEN e[1] ELSE NoInfo

\* the row [title, addr, phone, website, url, place_lat, place_lang]
parse_data_with_soup(html, u) ==
    LET place == extract_lat_lang_from_url(u)
    IN  <<TextOr(html.title), TextOr(html.address), TextOr(html.phone),
          TextOr(html.website), u, place[1], place[2]>>

\* ------------------------------------------------------------------- state
VARIABLES
    url,        \* self.url, fixed by the constructor
    browser,    \* self.browser / self.page: "None", "open" or "closed"; "nopage"
                \* and "closed_nopage" when the browser has no page
    entries,    \* self._entries
    fs,         \* the files: name -> [exists, rows]
    pc,         \* position of the call in progress, "idle" between calls
    caller,     \* who awaits _get_search_results_urls
    disc,       \* state of the scroll discoverer
    elapsed,    \* finish_scroll_time - start_scroll_time
    end_locator, \* what end_locator_is_present() returned in the last cycle
    ceiling,    \* self.SCROLL_TIME_DURATION_S
    cycle,      \* history: duration of the scroll cycle that ended the loop
    urls,       \* run(): the discovered links
    idx,        \* run(): position of the for loop in urls
    call,       \* the method the client called last
    raised,     \* exception that ended the last call, "none" if it returned
    runs,       \* number of run() calls made
    sunk,       \* history: data rows written by writer.writerow(data) in run()
    runRows,    \* history: data rows written by the run() in progress
    gotos,      \* history: page.goto(self.url) calls of the run() in progress
    discRuns    \* history: discoverer runs of the run() in progress

vars == <<url, browser, entries, fs, pc, caller, disc, elapsed, end_locator, ceiling,
          cycle, urls, idx, call, raised, runs, sunk, runRows, gotos, discRuns>>

FileNames == {FILENAME, "leads.csv"}
NoFile == [exists |-> FALSE, rows |-> <<>>]

\* self.page is truthy once init_browser has run, also after the browser closed
PageBound == browser \in {"open", "closed"}

\* the engine as the constructor leaves it
Constructed ==
    /\ url \in EngineUrls
    /\ browser = "None"
    /\ entries = <<>>
    /\ fs = [f \in FileNames |-> NoFile]
    /\ pc = "idle"
    /\ caller = "none"
    /\ disc = "Idle"
    /\ elapsed = 0
    /\ cycle = 0
    /\ urls = <<>>
    /\ idx = 0
    /\ call = "none"
    /\ raised = "none"
    /\ runs = 0
    /\ sunk = <<>>
    /\ runRows = <<>>
    /\ gotos = 0
    /\ discRuns = 0
    /\ end_locator = FALSE

Init == Constructed /\ ceiling = SCROLL_TIME_DURATION_S

\* the class constant is editable: also an engine whose ceiling was set to 0
ScrollInit == Constructed /\ ceiling \in {0, SCROLL_TIME_DURATION_S}

\* the locals of a call are dropped when it returns or raises
Return(exc) ==
    /\ pc' = "idle"
    /\ caller' = "none"
    /\ disc' = "Idle"
    /\ elapsed' = 0
    /\ cycle' = 0
    /\ urls' = <<>>
    /\ idx' = 0
    /\ runRows' = <<>>
    /\ gotos' = 0
    /\ discRuns' = 0
    /\ end_locator' = FALSE
    /\ raised' = exc

\* ----------------------------------------------------- init / shut browser
init_browser ==
    /\ pc = "idle"
    /\ call' = "init_browser"
    /\ browser' = "open"
    /\ raised' = "none"
    /\ UNCHANGED <<url, ceiling, end_locator, entries, fs, pc, caller, disc, elapsed, cycle,
                   urls, idx, runs, sunk, runRows, gotos, discRuns>>

shut_browser ==
    /\ pc = "idle"
    /\ call' = "shut_browser"
    /\ browser' = CASE browser = "open" -> "closed"
                     [] browser = "nopage" -> "closed_nopage"
                     [] OTHER -> browser
    /\ raised' = "none"
    /\ UNCHANGED <<url, ceiling, end_locator, entries, fs, pc, caller, disc, elapsed, cycle,
                   urls, idx, runs, sunk, runRows, gotos, discRuns>>

\* ------------------------------------------------------------------ search
\* entering _get_search_results_urls: hover_search_results comes first
Discover(who) ==
    /\ pc' = "hover"
    /\ caller' = who
    /\ disc' = "Focusing"
    /\ discRuns' = discRuns + 1
    /\ elapsed' = 0
    /\ cycle' = 0
    /\ end_locator' = FALSE

\* search without the page test: None.goto raises AttributeError
search_unchecked ==
    /\ pc = "idle"
    /\ call' = "search"
    /\ IF ~PageBound
       THEN /\ Return("AttributeError")
       ELSE IF browser = "closed"
       THEN /\ Return("Error")
       ELSE /\ Discover("search")
            /\ gotos' = gotos + 1
            /\ raised' = "none"
            /\ UNCHANGED <<urls, idx, runRows>>
    /\ UNCHANGED <<url, ceiling, browser, entries, fs, runs, sunk>>

\* search() called by the client
search ==
    /\ pc = "idle"
    /\ call' = "search"
    /\ IF ~PageBound
       THEN /\ Return("ValueError")
       ELSE IF browser = "closed"
       THEN /\ Return("Error")
       ELSE /\ Discover("search")
            /\ gotos' = gotos + 1
            /\ raised' = "none"
            /\ UNCHANGED <<urls, idx, runRows>>
    /\ UNCHANGED <<url, ceiling, browser, entries, fs, runs, sunk>>

\* ------------------------------------------------ _get_search_results_urls
\* hover_search_results with the pane found
hover_search_results ==
    /\ pc = "hover"
    /\ pc' = "scroll"
    /\ disc' = "Scrolling"
    /\ elapsed' = 0
    /\ UNCHANGED <<call, url, ceiling, end_locator, browser, entries, fs, caller, cycle, urls,
                   idx, raised, runs, sunk, runRows, gotos, discRuns>>

\* query_selector returns None and leftbar.hover() raises
hover_no_pane ==
    /\ pc = "hover"
    /\ Return("AttributeError")
    /\ UNCHANGED <<call, url, ceiling, browser, entries, fs, runs, sunk>>

\* scroll_and_sleep with start_scroll_time taken again in every iteration
scroll_and_sleep_restart ==
    /\ pc = "scroll"
    /\ \E d \in SLEEP_PER_SCROLL_S..(SLEEP_PER_SCROLL_S + MaxOverhead), found \in BOOLEAN :
          /\ elapsed' = d
          /\ end_locator' = found
          /\ IF found \/ elapsed' > ceiling
             THEN pc' = "scrape" /\ disc' = "Terminated" /\ cycle' = d
             ELSE pc' = "scroll" /\ disc' = "Scrolling" /\ cycle' = 0
    /\ UNCHANGED <<call, url, ceiling, browser, entries, fs, caller, urls, idx, raised, runs,
                   sunk, runRows, gotos, discRuns>>

\* scroll_and_sleep with the loop left once the ceiling is reached, not exceeded
scroll_and_sleep_at_ceiling ==
    /\ pc = "scroll"
    /\ \E d \in SLEEP_PER_SCROLL_S..(SLEEP_PER_SCROLL_S + MaxOverhead), found \in BOOLEAN :
          /\ elapsed' = elapsed + d
          /\ end_locator' = found
          /\ IF found \/ elapsed' >= ceiling
             THEN pc' = "scrape" /\ disc' = "Terminated" /\ cycle' = d
             ELSE pc' = "scroll" /\ disc' = "Scrolling" /\ cycle' = 0
    /\ UNCHANGED <<call, url, ceiling, browser, entries, fs, caller, urls, idx, raised,
                   runs, sunk, runRows, gotos, discRuns>>

\* scroll_and_sleep as a loop that tests before it scrolls
scroll_and_sleep_test_first ==
    /\ pc = "scroll"
    /\ \E d \in SLEEP_PER_SCROLL_S..(SLEEP_PER_SCROLL_S + MaxOverhead), found \in BOOLEAN :
          /\ end_locator' = found
          /\ IF found \/ elapsed > ceiling
             THEN pc' = "scrape" /\ disc' = "Terminated" /\ cycle' = 0 /\ elapsed' = elapsed
             ELSE pc' = "scroll" /\ disc' = "Scrolling" /\ cycle' = 0 /\ elapsed' = elapsed + d
    /\ UNCHANGED <<call, url, ceiling, browser, entries, fs, caller, urls, idx, raised,
                   runs, sunk, runRows, gotos, discRuns>>

\* one iteration of the while loop: scroll, sleep, read the clock, test
scroll_and_sleep ==
    /\ pc = "scroll"
    /\ \E d \in SLEEP_PER_SCROLL_S..(SLEEP_PER_SCROLL_S + MaxOverhead), found \in BOOLEAN :
          /\ elapsed' = elapsed + d
          /\ end_locator' = found
          /\ IF found \/ elapsed' > ceiling
             THEN pc' = "scrape" /\ disc' = "Terminated" /\ cycle' = d
             ELSE pc' = "scroll" /\ disc' = "Scrolling" /\ cycle' = 0
    /\ UNCHANGED <<call, url, ceiling, browser, entries, fs, caller, urls, idx, raised, runs,
                   sunk, runRows, gotos, discRuns>>

RECURSIVE SeqsUpTo(_, _)
SeqsUpTo(S, n) ==
    IF n = 0 THEN {<<>>}
    ELSE LET shorter == SeqsUpTo(S, n - 1)
         IN  shorter \cup {Append(q, x) : q \in shorter, x \in S}

\* the link lists scrape_urls may return
LinkLists == SeqsUpTo(LinkUrls, MaxLinks)

\* _get_search_results_urls awaited by a run() that has opened the sink and
\* written the header before it discovers
get_search_results_urls_sink_first ==
    /\ pc = "hover"
    /\ \/ /\ Return("AttributeError")
          /\ fs' = IF caller = "search" THEN fs
                   ELSE [fs EXCEPT ![FILENAME] =
                            [exists |-> TRUE, rows |-> Append(@.rows, FIELD_NAMES)]]
       \/ /\ fs' = fs
          /\ CASE caller = "search" ->
                    /\ Return("none")
               [] caller = "run.search" ->
                    /\ Discover("run")
                    /\ UNCHANGED <<urls, idx, raised, runRows, gotos>>
               [] caller = "run" ->
                    /\ urls' \in LinkLists
                    /\ pc' = "open"
                    /\ disc' = "Idle"
                    /\ elapsed' = 0
                    /\ cycle' = 0
                    /\ end_locator' = FALSE
                    /\ UNCHANGED <<caller, idx, raised, runRows, gotos, discRuns>>
    /\ UNCHANGED <<call, url, ceiling, browser, entries, runs, sunk>>

\* _get_search_results_urls as one step, for whoever awaits it: the pane is
\* missing and hover raises, or the loop ends and scrape_urls returns a list
get_search_results_urls ==
    /\ pc = "hover"
    /\ \/ Return("AttributeError")
       \/ CASE caller = "search" ->
                 \* search() drops the list and returns
                 /\ Return("none")
            [] caller = "run.search" ->
                 \* run() line 202 drops the list; line 203 discovers again
                 /\ Discover("run")
                 /\ UNCHANGED <<urls, idx, raised, runRows, gotos>>
            [] caller = "run" ->
                 /\ urls' \in LinkLists
                 /\ pc' = "open"
                 /\ disc' = "Idle"
                 /\ elapsed' = 0
                 /\ cycle' = 0
                 /\ end_locator' = FALSE
                 /\ UNCHANGED <<caller, idx, raised, runRows, gotos, discRuns>>
    /\ UNCHANGED <<call, url, ceiling, browser, entries, fs, runs, sunk>>

\* scrape_urls after the loop, and the return to search(), which drops the list
scrape_urls ==
    /\ pc = "scrape"
    /\ caller = "search"
    /\ \E found \in LinkLists : Return("none")
    /\ UNCHANGED <<call, url, ceiling, browser, entries, fs, runs, sunk>>

\* --------------------------------------------------------------------- run
\* run() up to the first suspension: the page test, then self.search()
run ==
    /\ pc = "idle"
    /\ call' = "run"
    /\ runs < MaxRuns
    /\ runs' = runs + 1
    /\ IF ~PageBound
       THEN /\ Return("ValueError")
       ELSE IF browser = "closed"
       THEN /\ Return("Error")
       ELSE /\ Discover("run.search")
            /\ gotos' = gotos + 1
            /\ raised' = "none"
            /\ UNCHANGED <<urls, idx, runRows>>
    /\ UNCHANGED <<url, ceiling, browser, entries, fs, sunk>>

\* open(..., mode='a') and writer.writerow(self.FIELD_NAMES)
open_sink ==
    /\ pc = "open"
    /\ fs' = [fs EXCEPT ![FILENAME] = [exists |-> TRUE, rows |-> Append(@.rows, FIELD_NAMES)]]
    /\ pc' = "loop"
    /\ idx' = 1
    /\ UNCHANGED <<call, url, ceiling, end_locator, browser, entries, caller, disc, elapsed,
                   cycle, urls, raised, runs, sunk, runRows, gotos, discRuns>>

\* Verdict with the longitudes left out of the comparison
Verdict_lat_only(ref, u) ==
    LET main == extract_lat_lang_from_url(ref)
        place == extract_lat_lang_from_url(u)
        main_lat == Float(main[1])
        main_lang == Float(main[2])
        place_lat == Float(place[1])
        place_lang == Float(place[2])
    IN  IF ValueError \in {main_lat, main_lang, place_lat, place_lang}
        THEN "ValueError"
        ELSE IF Round1(main_lat) = Round1(place_lat) THEN "match" ELSE "mismatch"

\* lines 218-228 for the link text u against the reference parsed from ref:
\* the four float() calls, the four round() calls and the comparison
Verdict(ref, u) ==
    LET main == extract_lat_lang_from_url(ref)
        place == extract_lat_lang_from_url(u)
        main_lat == Float(main[1])
        main_lang == Float(main[2])
        place_lat == Float(place[1])
        place_lang == Float(place[2])
    IN  IF ValueError \in {main_lat, main_lang, place_lat, place_lang}
        THEN "ValueError"
        ELSE IF /\ Round1(main_lat) = Round1(place_lat)
                /\ Round1(main_lang) = Round1(place_lang)
             THEN "match"
             ELSE "mismatch"

\* Verdict and the parsed row for every reference and link of the input sets,
\* evaluated once
Verdicts == [r \in EngineUrls |-> [u \in LinkUrls |-> Verdict(Text(r), Text(u))]]
Rows == [u \in LinkUrls |-> parse_data_with_soup(Content(u), Text(u))]

InLoop == pc = "loop" /\ idx <= Len(urls)

\* visit_accept without writer.writerow(data)
visit_accept_unsaved ==
    /\ InLoop
    /\ Verdicts[url][urls[idx]] = "match"
    /\ entries' = Append(entries, Rows[urls[idx]])
    /\ idx' = idx + 1
    /\ UNCHANGED <<call, url, ceiling, end_locator, browser, fs, pc, caller, disc, elapsed,
                   cycle, urls, raised, runs, sunk, runRows, gotos, discRuns>>

\* visit_accept with the row written to the sink but not kept in entries
visit_accept_sink_only ==
    /\ InLoop
    /\ Verdicts[url][urls[idx]] = "match"
    /\ LET data == Rows[urls[idx]]
       IN  /\ fs' = [fs EXCEPT ![FILENAME].rows = Append(@, data)]
           /\ sunk' = Append(sunk, data)
           /\ runRows' = Append(runRows, data)
    /\ idx' = idx + 1
    /\ UNCHANGED <<call, url, ceiling, end_locator, browser, entries, pc, caller, disc, elapsed,
                   cycle, urls, raised, runs, gotos, discRuns>>

\* visit_accept with the new row put in front of the rows of this run()
visit_accept_front ==
    /\ InLoop
    /\ Verdicts[url][urls[idx]] = "match"
    /\ LET data == Rows[urls[idx]]
           n == Len(runRows)
       IN  /\ entries' = SubSeq(entries, 1, Len(entries) - n) \o <<data>> \o runRows
           /\ fs' = [fs EXCEPT ![FILENAME].rows =
                        SubSeq(@, 1, Len(@) - n) \o <<data>> \o runRows]
           /\ sunk' = SubSeq(sunk, 1, Len(sunk) - n) \o <<data>> \o runRows
           /\ runRows' = <<data>> \o runRows
    /\ idx' = idx + 1
    /\ UNCHANGED <<call, url, ceiling, end_locator, browser, pc, caller, disc, elapsed, cycle,
                   urls, raised, runs, gotos, discRuns>>

\* one iteration of the for loop that saves the row
visit_accept ==
    /\ InLoop
    /\ Verdicts[url][urls[idx]] = "match"
    /\ LET data == Rows[urls[idx]]
       IN  /\ entries' = Append(entries, data)
           /\ fs' = [fs EXCEPT ![FILENAME].rows = Append(@, data)]
           /\ sunk' = Append(sunk, data)
           /\ runRows' = Append(runRows, data)
    /\ idx' = idx + 1
    /\ UNCHANGED <<call, url, ceiling, end_locator, browser, pc, caller, disc, elapsed, cycle,
                   urls, raised, runs, gotos, discRuns>>

\* one iteration of the for loop that skips the row
visit_skip ==
    /\ InLoop
    /\ Verdicts[url][urls[idx]] = "mismatch"
    /\ idx' = idx + 1
    /\ UNCHANGED <<call, url, ceiling, end_locator, browser, entries, fs, pc, caller, disc,
                   elapsed, cycle, urls, raised, runs, sunk, runRows, gotos, discRuns>>

\* float() raises: the with block closes the file and run() ends
visit_value_error ==
    /\ InLoop
    /\ Verdicts[url][urls[idx]] = "ValueError"
    /\ Return("ValueError")
    /\ UNCHANGED <<call, url, ceiling, browser, entries, fs, runs, sunk>>

\* page.goto(url) or page.content() raises
visit_page_error ==
    /\ InLoop
    /\ Return("Error")
    /\ UNCHANGED <<call, url, ceiling, browser, entries, fs, runs, sunk>>

\* the for loop is exhausted: the file is closed and run() returns
run_return ==
    /\ pc = "loop"
    /\ idx > Len(urls)
    /\ Return("none")
    /\ UNCHANGED <<call, url, ceiling, browser, entries, fs, runs, sunk>>

\* ------------------------------------------------------------- save_to_csv
\* save_to_csv without the test for empty entries
save_to_csv_unguarded(filename) ==
    /\ pc = "idle"
    /\ call' = "save_to_csv"
    /\ raised' = "none"
    /\ fs' = [fs EXCEPT ![filename] = [exists |-> TRUE, rows |-> <<FIELD_NAMES>> \o entries]]
    /\ UNCHANGED <<url, ceiling, end_locator, browser, entries, pc, caller, disc, elapsed,
                   cycle, urls, idx, runs, sunk, runRows, gotos, discRuns>>

\* save_to_csv that empties entries once they are dumped
save_to_csv_drain(filename) ==
    /\ pc = "idle"
    /\ call' = "save_to_csv"
    /\ IF entries = <<>>
       THEN /\ raised' = "NotImplementedError"
            /\ fs' = fs
            /\ entries' = entries
       ELSE /\ raised' = "none"
            /\ fs' = [fs EXCEPT ![filename] = [exists |-> TRUE, rows |-> <<FIELD_NAMES>> \o entries]]
            /\ entries' = <<>>
    /\ UNCHANGED <<url, ceiling, end_locator, browser, pc, caller, disc, elapsed, cycle, urls,
                   idx, runs, sunk, runRows, gotos, discRuns>>

save_to_csv(filename) ==
    /\ pc = "idle"
    /\ call' = "save_to_csv"
    /\ IF entries = <<>>
       THEN /\ raised' = "NotImplementedError"
            /\ fs' = fs
       ELSE /\ raised' = "none"
            /\ fs' = [fs EXCEPT ![filename] = [exists |-> TRUE, rows |-> <<FIELD_NAMES>> \o entries]]
    /\ UNCHANGED <<url, ceiling, end_locator, browser, entries, pc, caller, disc, elapsed,
                   cycle, urls, idx, runs, sunk, runRows, gotos, discRuns>>

save ==
    \E filename \in FileNames : save_to_csv(filename)

\* ------------------------------------------------------------ run.py main()
\* the detail pages page.content() may return
HtmlPages == {HtmlFull, HtmlNoAddress}

\* visit_accept_page with a row that has no address treated as a mismatch
visit_accept_page_with_address ==
    /\ InLoop
    /\ Verdicts[url][urls[idx]] = "match"
    /\ \E html \in HtmlPages :
          LET data == parse_data_with_soup(html, Text(urls[idx]))
          IN  IF html.address = <<>>
              THEN UNCHANGED <<entries, fs, sunk, runRows>>
              ELSE /\ entries' = Append(entries, data)
                   /\ fs' = [fs EXCEPT ![FILENAME].rows = Append(@, data)]
                   /\ sunk' = Append(sunk, data)
                   /\ runRows' = Append(runRows, data)
    /\ idx' = idx + 1
    /\ UNCHANGED <<call, url, ceiling, end_locator, browser, pc, caller, disc, elapsed,
                   cycle, urls, raised, runs, gotos, discRuns>>

\* one iteration of the for loop that saves the row, whatever page the link
\* renders
visit_accept_page ==
    /\ InLoop
    /\ Verdicts[url][urls[idx]] = "match"
    /\ \E html \in HtmlPages :
          LET data == parse_data_with_soup(html, Text(urls[idx]))
          IN  /\ entries' = Append(entries, data)
              /\ fs' = [fs EXCEPT ![FILENAME].rows = Append(@, data)]
              /\ sunk' = Append(sunk, data)
              /\ runRows' = Append(runRows, data)
    /\ idx' = idx + 1
    /\ UNCHANGED <<call, url, ceiling, end_locator, browser, pc, caller, disc, elapsed,
                   cycle, urls, raised, runs, gotos, discRuns>>

\* init_browser on a fresh engine raises: in start() or launch(), before
\* self.browser is assigned, or in new_page(), after it
init_browser_fails ==
    /\ pc = "idle"
    /\ browser = "None"
    /\ call' = "init_browser"
    /\ \E launched \in BOOLEAN : browser' = IF launched THEN "nopage" ELSE "None"
    /\ raised' = "Error"
    /\ UNCHANGED <<url, ceiling, end_locator, entries, fs, pc, caller, disc, elapsed,
                   cycle, urls, idx, runs, sunk, runRows, gotos, discRuns>>

\* main() is at its finally clause: a call of the try block has raised, or the
\* last one has returned
AtFinally ==
    /\ pc = "idle"
    /\ \/ call \in {"init_browser", "search", "run"} /\ raised # "none"
       \/ call = "save_to_csv"

\* main() has ended; raised is then the exception that left it
MainDone == call = "shut_browser"

\* the statements of the try block, in order
main_init_browser == call = "none" /\ (init_browser \/ init_browser_fails)
main_search == call = "init_browser" /\ raised = "none" /\ search
main_run == call = "search" /\ pc = "idle" /\ raised = "none" /\ run

\* main_save_to_csv that leaves the dump out when there is nothing to dump
main_save_if_any ==
    /\ call = "run" /\ pc = "idle" /\ raised = "none"
    /\ IF entries = <<>>
       THEN /\ call' = "save_to_csv"
            /\ raised' = "none"
            /\ UNCHANGED <<url, ceiling, end_locator, browser, entries, fs, pc, caller,
                           disc, elapsed, cycle, urls, idx, runs, sunk, runRows, gotos,
                           discRuns>>
       ELSE save_to_csv("leads.csv")

main_save_to_csv == call = "run" /\ pc = "idle" /\ raised = "none" /\ save_to_csv("leads.csv")

\* main_finally as the last statement of the try block instead
main_finally_in_try ==
    /\ AtFinally
    /\ call' = "shut_browser"
    /\ browser' = CASE raised # "none" -> browser
                    [] browser = "open" -> "closed"
                    [] browser = "nopage" -> "closed_nopage"
                    [] OTHER -> browser
    /\ UNCHANGED <<url, ceiling, end_locator, entries, fs, pc, caller, disc, elapsed,
                   cycle, urls, idx, raised, runs, sunk, runRows, gotos, discRuns>>

\* the finally clause: shut_browser, after which a pending exception goes on
\* out of main()
main_finally ==
    /\ AtFinally
    /\ call' = "shut_browser"
    /\ browser' = CASE browser = "open" -> "closed"
                    [] browser = "nopage" -> "closed_nopage"
                    [] OTHER -> browser
    /\ UNCHANGED <<url, ceiling, end_locator, entries, fs, pc, caller, disc, elapsed,
                   cycle, urls, idx, raised, runs, sunk, runRows, gotos, discRuns>>

\* ------------------------------------------------------------ specification
\* the engine under any client; a discovery is one step
Next ==
    \/ init_browser
    \/ shut_browser
    \/ search
    \/ get_search_results_urls
    \/ run
    \/ open_sink
    \/ visit_accept
    \/ visit_skip
    \/ visit_value_error
    \/ visit_page_error
    \/ run_return
    \/ save

Spec == Init /\ [][Next]_vars

\* the discoverer step by step, under a client that calls search()
ScrollNext ==
    \/ init_browser
    \/ shut_browser
    \/ search
    \/ hover_search_results
    \/ hover_no_pane
    \/ scroll_and_sleep
    \/ scrape_urls

ScrollSpec == ScrollInit /\ [][ScrollNext]_vars

\* the scroll loop resumes after every pause: asyncio wakes the coroutine
FairScrollSpec == ScrollSpec /\ WF_vars(scroll_and_sleep)

\* one execution of run.py: main() on a fresh engine, a discovery being one
\* step and every detail page rendering any of HtmlPages
MainNext ==
    \/ main_init_browser
    \/ main_search
    \/ get_search_results_urls
    \/ main_run
    \/ open_sink
    \/ visit_accept_page
    \/ visit_skip
    \/ visit_value_error
    \/ visit_page_error
    \/ run_return
    \/ main_save_to_csv
    \/ main_finally

MainSpec == Init /\ [][MainNext]_vars

\* ------------------------------------------------------------------ claims
\* the for loop of run() is exhausted and run() is about to return
RunCompleted == pc = "loop" /\ idx > Len(urls)

\* the coordinate parsed from every URL of the input sets, evaluated once
Coords == [u \in EngineUrls \cup LinkUrls |-> extract_lat_lang_from_url(Text(u))]

\* the reference coordinate of the engine, as run() parses it
Reference == Coords[url]

\* the PlaceLat and PlaceLang cells of a row
RowCoord(row) == <<row[6], row[7]>>

Unknown(c) == c = <<NoInfo, NoInfo>>

\* the coordinate comparison the specification describes: two known
\* coordinates whose latitudes and longitudes agree after rounding to a tenth
Known(c) == Float(c[1]) # ValueError /\ Float(c[2]) # ValueError
GeoMatch(a, b) ==
    /\ Known(a)
    /\ Known(b)
    /\ Round1(Float(a[1])) = Round1(Float(b[1]))
    /\ Round1(Float(a[2])) = Round1(Float(b[2]))

\* GeoMatch of every reference with every link of the input sets, evaluated once
LinkMatches == [r \in EngineUrls |-> [u \in LinkUrls |-> GeoMatch(Coords[r], Coords[u])]]

\* positions of the rows of a sequence whose GoogleMapsURL cell is the link u
RowsOf(u, rows) == {i \in DOMAIN rows : rows[i] # FIELD_NAMES /\ rows[i][5] = Text(u)}
InUrls(u) == \E i \in DOMAIN urls : urls[i] = u
Accepted(u) ==
    /\ RowsOf(u, runRows) # {}
    /\ RowsOf(u, entries) # {}
    /\ RowsOf(u, fs[FILENAME].rows) # {}
Rejected(u) ==
    /\ RowsOf(u, runRows) = {}
    /\ RowsOf(u, entries) = {}
    /\ RowsOf(u, fs[FILENAME].rows) = {}

\* C1: when run() has completed, entries is exactly the sequence of data rows
\* that the run() calls of this engine wrote to the sink, in order and with
\* multiplicity, after the first run() and after every later one.
C1_EntriesMirrorSink == RunCompleted => entries = sunk

\* C1 witness: a second run() completes having written a row on top of the
\* rows of the first.
C1_Witness ==
    /\ RunCompleted
    /\ runs = 2
    /\ Len(runRows) >= 1
    /\ Len(entries) > Len(runRows)

\* C2: a run() writes at most as many data rows as it discovered links; every
\* row written or appended to entries belongs to a link whose coordinate
\* matches the reference after rounding to a tenth; and the iteration of a link
\* that does not match changes neither the sink nor entries.  Stated step by
\* step: entries and the sink file only grow by a row of the link in hand, which
\* matches (the file also by a header, or by a dump of entries).
C2_OnlyMatchingRows ==
    [][LET sink == fs[FILENAME].rows
           sink2 == fs'[FILENAME].rows
       IN  /\ pc' = "loop" => Len(runRows') <= idx' - 1 /\ idx' - 1 <= Len(urls')
           /\ entries' # entries =>
                 /\ InLoop
                 /\ LinkMatches[url][urls[idx]]
                 /\ entries' = Append(entries, entries'[Len(entries')])
                 /\ GeoMatch(Reference, RowCoord(entries'[Len(entries')]))
                 /\ entries'[Len(entries')][5] = Text(urls[idx])
           /\ sink2 # sink =>
                 \/ sink2 = Append(sink, FIELD_NAMES)
                 \/ sink2 = <<FIELD_NAMES>> \o entries
                 \/ /\ InLoop
                    /\ LinkMatches[url][urls[idx]]
                    /\ sink2 = Append(sink, entries'[Len(entries')])
                    /\ entries' # entries
           /\ InLoop /\ ~LinkMatches[url][urls[idx]]
                 => entries' = entries /\ fs' = fs]_vars

\* C2 witness: a run() over two links has skipped the first, whose longitude
\* rounds differently, and written the second.
C2_Witness ==
    /\ RunCompleted
    /\ urls = <<"LinkA", "LinkG">>
    /\ Len(runRows) = 1
    /\ url = "UrlAstana"

\* C3 (as claimed): a link that fails never stops run(): with a sound reference
\* coordinate, while the link in hand is not the last, the next step of run()
\* stays in the loop, so that the links after it are processed too.  Stated for
\* the links whose page loads, which leaves the failure to the link's URL.
C3_EveryLinkProcessed ==
    [][InLoop /\ Known(Reference) /\ idx < Len(urls) /\ raised' # "Error" => pc' = "loop"]_vars

\* C4 (as claimed): when the reference or the link coordinate is the placeholder
\* and the page loads, the iteration raises nothing and skips exactly that link.
C4_UnknownIsSkipped ==
    [][InLoop /\ raised' # "Error"
         /\ (Unknown(Reference) \/ Unknown(Coords[urls[idx]]))
       => /\ pc' = "loop"
          /\ idx' = idx + 1
          /\ entries' = entries
          /\ fs' = fs]_vars

\* C5: the scroll loop always ends, also when the end-of-list marker never
\* shows, and when it ends the time since its start is at most the ceiling plus
\* the duration of one scroll cycle.
C5_ScrollTerminates ==
    /\ (pc = "scroll") ~> (pc = "scrape")
    /\ [](pc = "scrape" => elapsed <= SCROLL_TIME_DURATION_S + cycle)

\* C5 witness: the loop has ended on the ceiling, past SCROLL_TIME_DURATION_S.
C5_Witness ==
    /\ pc = "scrape"
    /\ elapsed > SCROLL_TIME_DURATION_S
    /\ elapsed = SCROLL_TIME_DURATION_S + cycle

\* C6 (as claimed): within one run() the search URL is navigated to once and the
\* discoverer is started once, so that it never leaves Terminated for Focusing;
\* the link list of the loop comes from that single discovery.
C6_SingleDiscovery ==
    (call = "run" /\ pc # "idle") =>
        /\ gotos <= 1
        /\ discRuns <= 1
        /\ (pc \in {"open", "loop"} => discRuns = 1)

\* C7 (as claimed): with reference (51.1801, 71.4460) the link encoding
\* (51.18, 71.45) is accepted and the link encoding (40.71, -74.00) rejected.
C7_ScenarioAsClaimed ==
    (url = "UrlAstana" /\ RunCompleted) =>
        /\ InUrls("LinkA") => Accepted("LinkA")
        /\ InUrls("LinkB") => Rejected("LinkB")

\* C7 (amended): with reference (51.1801, 71.4460) the link encoding
\* (51.18, 71.45) is rejected, because 71.45 rounds to 71.5 and 71.4460 to 71.4;
\* the link encoding (51.18, 71.44) is accepted and the link encoding
\* (40.71, -74.00) is rejected.
C7_ScenarioAmended ==
    (url = "UrlAstana" /\ RunCompleted) =>
        /\ InUrls("LinkA") => Rejected("LinkA")
        /\ InUrls("LinkB") => Rejected("LinkB")
        /\ InUrls("LinkC") => Accepted("LinkC")

\* C7 witness: a run() with that reference has processed the links encoding
\* (51.18, 71.45) and (51.18, 71.44) and kept only the second.
C7_Witness ==
    /\ url = "UrlAstana"
    /\ RunCompleted
    /\ urls = <<"LinkA", "LinkC">>
    /\ Len(runRows) = 1
    /\ Rejected("LinkA")

\* C8 (as claimed): the sink file holds exactly one header row, and it is the
\* first row.
C8_OneHeaderRow ==
    fs[FILENAME].exists =>
        /\ fs[FILENAME].rows[1] = FIELD_NAMES
        /\ Cardinality({i \in DOMAIN fs[FILENAME].rows : fs[FILENAME].rows[i] = FIELD_NAMES}) = 1

\* C9: save_to_csv called while entries is empty raises, creates, truncates
\* and writes no file, and leaves entries as it was.
C9_EmptyDumpFails ==
    [][pc = "idle" /\ call' = "save_to_csv" /\ entries = <<>>
       => /\ raised' = "NotImplementedError"
          /\ fs' = fs
          /\ entries' = entries]_vars

\* C9 witness: save_to_csv has failed after a run() that wrote the header and
\* accepted nothing; no dump file exists and the sink holds the header only.
C9_Witness ==
    /\ call = "save_to_csv"
    /\ raised = "NotImplementedError"
    /\ fs[FILENAME] = [exists |-> TRUE, rows |-> <<FIELD_NAMES>>]
    /\ ~fs["leads.csv"].exists

\* C10: with no page bound, run() and search() raise the precondition error
\* before any navigation, scroll or sink write, and leave entries and the files
\* as they were.
C10_PageRequired ==
    [][pc = "idle" /\ browser = "None" /\ call' \in {"run", "search"}
       => /\ raised' = "ValueError"
          /\ pc' = "idle"
          /\ gotos' = 0
          /\ discRuns' = 0
          /\ entries' = entries
          /\ fs' = fs]_vars

\* C10 witness: run() has raised the precondition error on an engine whose
\* browser was never initialised.
C10_Witness ==
    /\ call = "run"
    /\ raised = "ValueError"
    /\ browser = "None"
    /\ pc = "idle"

\* the last rows of a sequence, as many as the run() in progress has written
RunTail(rows) ==
    IF Len(rows) >= Len(runRows)
    THEN SubSeq(rows, Len(rows) - Len(runRows) + 1, Len(rows))
    ELSE <<>>

\* C11: a record is written to the sink in the step that accepts it.  At every
\* point of the for loop of run() the rows this run() has appended to entries,
\* the rows it has written and the rows of the sink file after the header it
\* wrote are the same sequence; a step that appends to entries writes that row,
\* and a step that ends run(), with an error or without, changes neither.
C11_StreamedInStep ==
    [][pc = "loop" =>
         LET sink == fs[FILENAME].rows
         IN  /\ entries = sunk
             /\ RunTail(entries) = runRows
             /\ RunTail(sink) = runRows
             /\ Len(sink) > Len(runRows)
             /\ sink[Len(sink) - Len(runRows)] = FIELD_NAMES
             /\ (entries' # entries \/ fs' # fs) =>
                   /\ Len(entries') = Len(entries) + 1
                   /\ entries' = Append(entries, entries'[Len(entries')])
                   /\ fs' = [fs EXCEPT ![FILENAME].rows = Append(sink, entries'[Len(entries')])]
             /\ pc' = "idle" => entries' = entries /\ fs' = fs]_vars

\* C11 witness: the first run() has ended with ValueError part-way through its
\* list after accepting a link; entries and the sink hold the same data rows.
C11_Witness ==
    /\ call = "run"
    /\ raised = "ValueError"
    /\ pc = "idle"
    /\ runs = 1
    /\ Len(entries) >= 1
    /\ fs[FILENAME].rows = <<FIELD_NAMES>> \o entries

\* a is a subsequence of b
RECURSIVE IsSubseq(_, _)
IsSubseq(a, b) ==
    IF a = <<>> THEN TRUE
    ELSE IF b = <<>> THEN FALSE
    ELSE IF a[1] = b[1] THEN IsSubseq(Tail(a), Tail(b))
    ELSE IsSubseq(a, Tail(b))

\* the GoogleMapsURL cells of a sequence of rows; the texts of a list of links
UrlCells(rows) == [i \in DOMAIN rows |-> rows[i][5]]
Texts(links) == [i \in DOMAIN links |-> Text(links[i])]

\* C12: the rows a run() has written to the sink are in discovery order: their
\* source URLs are a subsequence of the links processed so far.  The loop takes
\* the links one at a time: a step that stays in the loop has finished exactly
\* the link in hand and moves to the next, and a row written by the step is the
\* row of the link in hand.
C12_DiscoveryOrder ==
    [][pc = "loop" =>
         LET sink == fs[FILENAME].rows
             sink2 == fs'[FILENAME].rows
         IN  /\ idx >= 1 /\ idx <= Len(urls) + 1
             /\ IsSubseq(UrlCells(RunTail(sink)), Texts(SubSeq(urls, 1, idx - 1)))
             /\ pc' = "loop" => idx' = idx + 1 /\ urls' = urls /\ idx <= Len(urls)
             /\ sink2 # sink =>
                   /\ Len(sink2) = Len(sink) + 1
                   /\ sink2[Len(sink2)][5] = Text(urls[idx])]_vars

\* C12 witness: a run() over two matching links has written both rows, the row
\* of the first link first.
C12_Witness ==
    /\ RunCompleted
    /\ url = "UrlAstana"
    /\ urls = <<"LinkG", "LinkC">>
    /\ UrlCells(runRows) = <<LinkG, LinkC>>
    /\ UrlCells(RunTail(fs[FILENAME].rows)) = <<LinkG, LinkC>>

IsPrefix(a, b) == Len(a) <= Len(b) /\ SubSeq(b, 1, Len(a)) = a

\* C13: entries only grows at its end, and a save_to_csv that succeeds leaves
\* entries as it was and makes the file it writes the header followed by the
\* data rows that the run() calls streamed to the sink, in order.
C13_DumpMatchesStream ==
    [][/\ IsPrefix(entries, entries')
       /\ (pc = "idle" /\ call' = "save_to_csv" /\ raised' = "none") =>
             /\ entries' = entries
             /\ \E f \in FileNames :
                   fs' = [fs EXCEPT ![f] = [exists |-> TRUE, rows |-> <<FIELD_NAMES>> \o sunk]]]_vars

\* C13 witness: after two run() calls that streamed rows, save_to_csv has
\* written leads.csv; the sink file itself holds two header rows.
C13_Witness ==
    /\ call = "save_to_csv"
    /\ raised = "none"
    /\ runs = 2
    /\ Len(sunk) >= 2
    /\ fs["leads.csv"] = [exists |-> TRUE, rows |-> <<FIELD_NAMES>> \o sunk]
    /\ Len(fs[FILENAME].rows) = Len(sunk) + 2

\* the parse the specification describes: the place pattern, else the
\* map-center pattern, else the placeholder
PreciseThenCoarse(s) ==
    IF PlaceSearch(s) # <<>> THEN PlaceSearch(s)
    ELSE IF CenterSearch(s) # <<>> THEN CenterSearch(s)
    ELSE <<NoInfo, NoInfo>>

\* PreciseThenCoarse of every URL of the input sets, evaluated once
Fallbacks == [u \in EngineUrls \cup LinkUrls |-> PreciseThenCoarse(Text(u))]

\* C14 (as claimed): the coordinate run() parses from the search URL and from
\* the link in hand is that of the place pattern if it matches, else that of
\* the map-center pattern if it matches, and the placeholder only if neither
\* matches.
C14_FallsBackToCoarse ==
    InLoop =>
        /\ Coords[urls[idx]] = Fallbacks[urls[idx]]
        /\ Reference = Fallbacks[url]

\* C17: the loop tests for termination only at the end of a scroll+pause cycle;
\* it is left after a cycle exactly when the end-of-list marker is then present
\* or the elapsed time then exceeds the ceiling, and otherwise goes on; links
\* are scraped once, after the loop has been left, and discovery then returns.
C17_StopsAfterCycle ==
    [][/\ pc = "scroll" =>
             /\ elapsed' >= elapsed + SLEEP_PER_SCROLL_S
             /\ pc' \in {"scroll", "scrape"}
             /\ pc' = "scrape" <=> (end_locator' \/ elapsed' > ceiling)
       /\ pc' = "scrape" => pc = "scroll"
       /\ pc = "scrape" => pc' = "idle" /\ raised' = "none"
       /\ (pc \in {"hover", "scroll", "scrape"} /\ pc' = "idle" /\ raised' = "none")
             => pc = "scrape"]_vars

\* C17 witness: the loop has been left on the marker after more than one
\* cycle, with the elapsed time still under the ceiling.
C17_Witness ==
    /\ pc = "scrape"
    /\ end_locator
    /\ elapsed > SLEEP_PER_SCROLL_S + MaxOverhead
    /\ elapsed < ceiling

\* C18: when the results pane is missing, discovery ends at once with the
\* error of the hover: the discoverer goes straight back to idle without a
\* scroll cycle, no link list is produced, the for loop of run() is not entered,
\* and the sink, the files and entries stay as they were.
C18_NoPaneFailsFast ==
    [][pc = "hover" /\ raised' = "AttributeError"
       => /\ pc' = "idle"
          /\ disc' = "Idle"
          /\ elapsed' = 0
          /\ urls' = <<>>
          /\ idx' = 0
          /\ entries' = entries
          /\ sunk' = sunk
          /\ fs' = fs]_vars

\* C18 witness: the first run() has failed on the missing pane; there is no
\* sink file and entries is empty.
C18_Witness ==
    /\ call = "run"
    /\ raised = "AttributeError"
    /\ pc = "idle"
    /\ runs = 1
    /\ entries = <<>>
    /\ \A f \in FileNames : ~fs[f].exists

\* C19: whenever the scroll loop has been left, at least one scroll and one
\* full pause lie behind it, also when the marker was there at the first test
\* and when the ceiling is zero.
C19_AtLeastOneCycle ==
    (pc = "scrape" \/ disc = "Terminated") => elapsed >= SLEEP_PER_SCROLL_S

\* C19 witness: with a ceiling of zero and the marker present at the first
\* test, the loop has been left after one cycle of exactly one pause.
C19_Witness ==
    /\ pc = "scrape"
    /\ ceiling = 0
    /\ end_locator
    /\ elapsed = SLEEP_PER_SCROLL_S

\* C15: whether a link is accepted is decided by the link's URL and the
\* reference coordinate alone: whatever page the link renders, with an address
\* element or without, the iteration appends to entries and writes to the sink
\* exactly when the two coordinates match.
C15_HtmlDoesNotDecide ==
    [][InLoop /\ pc' = "loop"
       => /\ entries' # entries <=> LinkMatches[url][urls[idx]]
          /\ fs' # fs <=> LinkMatches[url][urls[idx]]]_vars

\* C15 witness: the same link was discovered twice and accepted both times,
\* once from a page without an address element and once from a page with one.
C15_Witness ==
    /\ RunCompleted
    /\ urls = <<"LinkC", "LinkC">>
    /\ Len(entries) = 2
    /\ entries[1][2] = NoInfo
    /\ entries[2][2] # NoInfo

\* C16: when main() has ended, normally or with the exception of any call of
\* its try block, a browser that was launched is closed; and whenever a call of
\* the try block has raised, the finally clause is what runs next.
C16_BrowserClosedOnExit ==
    /\ MainDone => browser \in {"None", "closed", "closed_nopage"}
    /\ (pc = "idle" /\ raised # "none" /\ ~MainDone) => ENABLED main_finally

\* C16 witness: run() raised ValueError after the sink was opened; main() has
\* ended with that exception and the browser is closed.
C16_Witness ==
    /\ MainDone
    /\ raised = "ValueError"
    /\ browser = "closed"
    /\ fs[FILENAME].exists

\* C20: when run() has returned with entries empty, the next step of main() is
\* save_to_csv('leads.csv') raising NotImplementedError; no file is written, so
\* leads.csv does not exist while the sink file holds its header row; and
\* main() then ends with that exception.
C20_EmptyRunFailsMain ==
    [][/\ (pc = "idle" /\ call = "run" /\ raised = "none" /\ entries = <<>>) =>
             /\ call' = "save_to_csv"
             /\ raised' = "NotImplementedError"
             /\ fs' = fs
             /\ ~fs["leads.csv"].exists
             /\ fs[FILENAME] = [exists |-> TRUE, rows |-> <<FIELD_NAMES>>]
       /\ (call = "save_to_csv" /\ raised = "NotImplementedError") =>
             /\ MainDone'
             /\ raised' = "NotImplementedError"
             /\ fs' = fs]_vars

\* C20 witness: main() has ended with NotImplementedError; the sink file holds
\* the header row only and there is no leads.csv.
C20_Witness ==
    /\ MainDone
    /\ raised = "NotImplementedError"
    /\ fs[FILENAME] = [exists |-> TRUE, rows |-> <<FIELD_NAMES>>]
    /\ ~fs["leads.csv"].exists
    /\ browser = "closed"

====
